---- MODULE Spec2Model ----
(***************************************************************************)
(* A state-machine model of Auto_Git.py: the AutoGitUp class, its          *)
(* constructor and its two upload strategies (git_upload_by_localconfig    *)
(* and git_upload_by_envconfig).  Every external call (git, GitPython,     *)
(* PyGithub, the file system, the operator's terminal) is a step whose     *)
(* outcome is chosen nondeterministically among the outcomes the call has; *)
(* what the program does with each outcome is taken from the source.       *)
(***************************************************************************)
EXTENDS Integers, Sequences, FiniteSets, TLC

VARIABLES
    pc,          \* position of the program (constructor / upload steps)
    method,      \* self.method
    github_api,  \* self.github_api is set (the PyGithub client exists)
    ctorError,   \* exception __init__ raised, or "none"
    env,         \* <<self.token, self.username, self.repo_name>>
    netUsed,     \* a request to the GitHub API has been made
    remotes,     \* len(self.repo.remotes)
    head,        \* "branch" (HEAD on a branch) or "detached"
    hasMain,     \* a local branch named main exists
    dirty,       \* files whose working-tree content differs from the index
    staged,      \* files whose index content differs from HEAD
    nextSha,     \* next fresh commit id
    unpushed,    \* commits made by index.commit that no remote has
    remoteHead,  \* commit the remote branch points at
    externals,   \* number of pushes made by other parties
    calls,       \* number of git_upload calls started
    call         \* the record of the call in progress (or the last one)

vars == <<pc, method, github_api, ctorError, env, netUsed, remotes, head, hasMain, dirty,
          staged, nextSha, unpushed, remoteHead, externals, calls, call>>

----------------------------------------------------------------------------
(* Bounds of the model *)

\* number of git_upload calls made on one object
MaxCalls == 2
\* length of a file's content, in bytes
MaxLen == 2
\* number of pushes other parties make to the hosted branch
MaxExternal == 1

----------------------------------------------------------------------------
(* Data *)

Methods == {"LOCALCONFIG", "ENVCONFIG", "FTP"}

\* file names are sequences of characters, as startswith('.') reads them
DotEnv == <<".", "e", "n", "v">>
ATxt == <<"a", ".", "t", "x", "t">>
BBin == <<"b", ".", "b", "i", "n">>

\* the paths of the working tree, in the order git prints them
Files == <<DotEnv, ATxt, BBin>>

FileSet == {Files[i] : i \in 1..Len(Files)}

\* byte values a file is made of: 'A', and the two bytes of U+00E9
Bytes == {65, 195, 169}

RECURSIVE SeqsUpTo(_, _)
SeqsUpTo(S, n) ==
    IF n = 0 THEN {<<>>}
    ELSE LET shorter == SeqsUpTo(S, n - 1)
         IN  shorter \cup {Append(s, b) : s \in shorter, b \in S}

Contents == SeqsUpTo(Bytes, MaxLen)

\* what the operator may type at the remote-URL prompt
Urls == {<<"q">>, <<"Q">>, <<"u">>, <<"q", "u">>}

\* what the operator may type at the remote-selection prompt:
\* nothing, a number, or something that is no number
Choices == {"", "x", "0", "1", "2", "3"}

\* values an environment variable may have: unset, empty, set
EnvValues == {"None", "", "tok"}

\* status: "created", "refused" (the client library refuses the content) or
\* "api_error" (the request failed)
NoBlob == [file |-> <<>>, content |-> <<>>, encoding |-> "none",
           payload |-> <<>>, isStr |-> TRUE, status |-> "none"]

NoCommit == [sha |-> 0, parents |-> <<>>]

NewCall ==
    [ result |-> "none",        \* "none", "true", "false"
      prevCommit |-> 0,         \* sha of the commit the previous call made
      answer |-> <<>>,          \* what the operator typed at the URL prompt
      changed |-> <<>>,         \* changed_files
      gotChanges |-> FALSE,     \* get_changed_files has returned
      added |-> FALSE,          \* git add . was run
      remoteAdded |-> FALSE,    \* create_remote succeeded
      commit |-> 0,             \* sha of the commit index.commit made
      branch |-> "",            \* branch name _get_remote_branch returned
      warned |-> FALSE,         \* the detached-head warning was logged
      prompted |-> FALSE,       \* the operator was asked to select a remote
      pushes |-> 0,             \* remote.push calls
      pushOutcome |-> "none",
      pulls |-> 0,              \* remote.pull calls
      pullFailed |-> FALSE,
      published |-> -1,         \* remoteHead right after the publish step
      raised |-> "none",        \* exception that left git_upload
      current_commit |-> -1,    \* sha read from the branch reference
      extAtStart |-> 0,         \* externals when the reference was read
      next |-> 1,               \* index in changed_files of the blob loop
      elements |-> <<>>,        \* element_list, as file names
      skipped |-> {},           \* files skipped (FileNotFoundError)
      blob |-> NoBlob,          \* the blob created last
      blobs |-> 0,              \* blobs created
      tree |-> FALSE,           \* create_git_tree succeeded
      new_commit |-> NoCommit,  \* create_git_commit's result
      refEdited |-> FALSE ]     \* ref.edit succeeded

----------------------------------------------------------------------------
(* Pure helpers *)

\* str.lower() on one character
LowerChar(c) ==
    CASE c = "Q" -> "q"
      [] c = "U" -> "u"
      [] OTHER -> c

\* str.lower()
Lower(s) == [i \in 1..Len(s) |-> LowerChar(s[i])]

IsQuitExact(url) == url = <<"q">>

\* remote_url.lower() == "q"
IsQuit(url) == Lower(url) = <<"q">>

\* Python truthiness of an os.getenv result
Truthy(v) == v # "None" /\ v # ""

EnvAny(t, u, r) == Truthy(t) \/ Truthy(u) \/ Truthy(r)

\* all([self.token, self.username, self.repo_name])
EnvComplete(t, u, r) == Truthy(t) /\ Truthy(u) /\ Truthy(r)

\* f.startswith('.')
StartsWithDot(f) == Len(f) > 0 /\ f[1] = "."

RECURSIVE FilterSeq(_, _)
FilterSeq(s, S) ==
    IF s = <<>> THEN <<>>
    ELSE IF s[1] \in S THEN <<s[1]>> \o FilterSeq(Tail(s), S)
         ELSE FilterSeq(Tail(s), S)

\* [f for f in <git diff --name-only --cached> if f and not f.startswith('.')]
ChangedOf(index) == FilterSeq(Files, {f \in index : ~StartsWithDot(f)})

\* int(choice), for the strings int() accepts among Choices
IsNumber(s) == s \in {"0", "1", "2", "3"}

IntOf(s) ==
    CASE s = "0" -> 0
      [] s = "1" -> 1
      [] s = "2" -> 2
      [] s = "3" -> 3

\* self.repo.remotes[idx] for a Python index idx over n remotes: the position
\* (1-based) it selects, or 0 when it raises IndexError
PyIndex(idx, n) ==
    IF idx >= 0 /\ idx < n THEN idx + 1
    ELSE IF idx < 0 /\ idx >= -n THEN n + idx + 1
    ELSE 0

\* lines 123-138 of _get_remote_branch: the remote selected (1-based)
SelectRemote(choice, n) ==
    IF n = 1 THEN 1
    ELSE IF choice = "" THEN PyIndex(0, n)
    ELSE IF ~IsNumber(choice) THEN 1                    \* ValueError
    ELSE IF PyIndex(IntOf(choice) - 1, n) = 0 THEN 1    \* IndexError
    ELSE PyIndex(IntOf(choice) - 1, n)

(* UTF-8, as bytes.decode('utf-8') (strict) reads it *)

IsCont(b) == b >= 128 /\ b <= 191

\* number of bytes of the sequence a lead byte starts; 0 when it starts none
Utf8Width(b) ==
    IF b < 128 THEN 1
    ELSE IF b >= 194 /\ b <= 223 THEN 2
    ELSE IF b >= 224 /\ b <= 239 THEN 3
    ELSE IF b >= 240 /\ b <= 244 THEN 4
    ELSE 0

\* the code point of the sequence at the head of s, or -1 when it is malformed
Utf8Head(s) ==
    LET w == Utf8Width(s[1]) IN
    IF w = 0 \/ Len(s) < w THEN -1
    ELSE IF w = 1 THEN s[1]
    ELSE IF \E i \in 2..w : ~IsCont(s[i]) THEN -1
    ELSE IF w = 2 THEN (s[1] - 192) * 64 + (s[2] - 128)
    ELSE IF w = 3 THEN
        LET cp == (s[1] - 224) * 4096 + (s[2] - 128) * 64 + (s[3] - 128)
        IN  IF cp < 2048 \/ (cp >= 55296 /\ cp <= 57343) THEN -1 ELSE cp
    ELSE
        LET cp == (s[1] - 240) * 262144 + (s[2] - 128) * 4096
                  + (s[3] - 128) * 64 + (s[4] - 128)
        IN  IF cp < 65536 \/ cp > 1114111 THEN -1 ELSE cp

RECURSIVE Utf8Valid(_)
\* content.decode('utf-8') does not raise UnicodeDecodeError
Utf8Valid(s) ==
    IF s = <<>> THEN TRUE
    ELSE Utf8Head(s) >= 0 /\ Utf8Valid(SubSeq(s, Utf8Width(s[1]) + 1, Len(s)))

RECURSIVE Utf8Decode(_)
\* content.decode('utf-8'): the code points of a valid sequence
Utf8Decode(s) ==
    IF s = <<>> THEN <<>>
    ELSE <<Utf8Head(s)>> \o Utf8Decode(SubSeq(s, Utf8Width(s[1]) + 1, Len(s)))

\* the bytes of one code point
Utf8Bytes(cp) ==
    IF cp < 128 THEN <<cp>>
    ELSE IF cp < 2048 THEN <<192 + (cp \div 64), 128 + (cp % 64)>>
    ELSE IF cp < 65536 THEN
        <<224 + (cp \div 4096), 128 + ((cp \div 64) % 64), 128 + (cp % 64)>>
    ELSE <<240 + (cp \div 262144), 128 + ((cp \div 4096) % 64),
           128 + ((cp \div 64) % 64), 128 + (cp % 64)>>

RECURSIVE Utf8Encode(_)
\* the bytes a text blob's content is stored as
Utf8Encode(cps) ==
    IF cps = <<>> THEN <<>>
    ELSE Utf8Bytes(cps[1]) \o Utf8Encode(Tail(cps))

(* base64, as the host reads the content of a blob declared 'base64' *)

\* the value of a base64 character, given by its code; -1 for any other
B64Val(c) ==
    IF c >= 65 /\ c <= 90 THEN c - 65
    ELSE IF c >= 97 /\ c <= 122 THEN c - 71
    ELSE IF c >= 48 /\ c <= 57 THEN c + 4
    ELSE IF c = 43 THEN 62
    ELSE IF c = 47 THEN 63
    ELSE -1

\* the bytes of one group of four characters; <<-1>> when it is malformed
B64Group(g) ==
    LET pad == IF g[4] = 61 THEN (IF g[3] = 61 THEN 2 ELSE 1) ELSE 0
        v(i) == IF i > 4 - pad THEN 0 ELSE B64Val(g[i])
        n == v(1) * 262144 + v(2) * 4096 + v(3) * 64 + v(4)
        all == <<n \div 65536, (n \div 256) % 256, n % 256>>
    IN  IF \E i \in 1..(4 - pad) : B64Val(g[i]) < 0 THEN <<-1>>
        ELSE SubSeq(all, 1, 3 - pad)

RECURSIVE B64Decode(_)
\* the bytes a base64 string stands for; <<-1>> when it is no base64 string
B64Decode(s) ==
    IF s = <<>> THEN <<>>
    ELSE IF Len(s) < 4 THEN <<-1>>
    ELSE LET g == B64Group(SubSeq(s, 1, 4))
             rest == B64Decode(SubSeq(s, 5, Len(s)))
         IN  IF g = <<-1>> \/ rest = <<-1>> THEN <<-1>>
             ELSE IF Len(g) < 3 /\ Len(s) > 4 THEN <<-1>>
             ELSE g \o rest

\* the bytes a fetch of the blob returns: its content read as its declared
\* encoding says
Fetch(blob) ==
    IF blob.encoding = "utf-8" THEN Utf8Encode(blob.payload)
    ELSE B64Decode(blob.payload)

\* lines 261-267: the arguments create_git_blob is called with for a file
\* whose bytes are content
BlobRequest(file, content) ==
    IF Utf8Valid(content)
    THEN [file |-> file, content |-> content, encoding |-> "utf-8",
          payload |-> Utf8Decode(content), isStr |-> TRUE,
          status |-> "created"]
    ELSE [file |-> file, content |-> content, encoding |-> "base64",
          payload |-> content, isStr |-> FALSE, status |-> "created"]

----------------------------------------------------------------------------
(* Decisions the code takes *)

NothingNever(changed) == FALSE

\* lines 174 and 246: if not changed_files
NothingToUpload(changed) == changed = <<>>

KeepIndex(index) == index

\* line 186: after index.commit the index equals the new HEAD
StagedAfterCommit(index) == {}

\* the exceptions the handlers of each function catch
\* line 218: except GitCommandError
LocalCatches(exc) == exc = "GitCommandError"

\* line 299: except Exception
EnvCatches(exc) == TRUE

\* line 196: the refspec branch:branch names a local branch, which must exist
SrcRefExists(branch) == IF branch = "main" THEN hasMain ELSE head = "branch"

\* what remote.push returns for each outcome of the push
PushInfo(outcome) ==
    IF outcome = "accepted" THEN <<[error |-> FALSE]>>
    ELSE <<[error |-> TRUE]>>

PushNeverFailed(push_info) == FALSE

\* line 199: push_info and push_info[0].flags & push_info[0].ERROR
PushFailed(push_info) == push_info # <<>> /\ push_info[1].error

ResultOfSync(synced) == IF synced THEN "true" ELSE "false"

\* lines 214-216 and 295-297: the result of _sync_with_remote is dropped
ResultAfterSync(synced) == "true"

ParentsLatest(current_commit) == <<remoteHead>>

\* line 277: [current_commit]
CommitParents(current_commit) == <<current_commit>>

\* ref.edit(sha) without force: the host accepts a fast-forward only
FastForward(commit) ==
    \E i \in 1..Len(commit.parents) : commit.parents[i] = remoteHead

\* the steps of a call in progress
LocalSteps == {"l_remote", "l_changes", "l_commit", "l_branch", "l_push", "l_sync"}

EnvSteps == {"e_repo", "e_changes", "e_blob", "e_tree", "e_commit", "e_ref", "e_sync"}

\* the object exists and no call is in progress
Idle == pc \in {"ready", "done", "raised"}

\* return value of the call in progress
Return(c, b) == [c EXCEPT !.result = IF b THEN "true" ELSE "false"]

----------------------------------------------------------------------------
(* Initial state: before AutoGitUp(method) is called *)

Init ==
    /\ pc = "new"
    /\ method \in Methods
    /\ github_api = FALSE
    /\ ctorError = "none"
    /\ env = <<"None", "None", "None">>
    /\ netUsed = FALSE
    /\ remotes \in 0..2
    /\ head \in {"branch", "detached"}
    /\ hasMain \in BOOLEAN
    /\ (head = "branch") => hasMain
    \* only the local strategy reads HEAD and the local branches
    /\ (method # "LOCALCONFIG") => (head = "branch")
    /\ dirty = {}
    /\ staged = {}
    /\ nextSha = 1
    /\ unpushed = {}
    /\ remoteHead = 0
    /\ externals = 0
    /\ calls = 0
    /\ call = NewCall

----------------------------------------------------------------------------
(* __init__ *)

\* lines 29-47, up to the dispatch on self.method
Construct ==
    /\ pc = "new"
    /\ \E gitInstalled \in BOOLEAN :
        IF ~gitInstalled
        THEN /\ pc' = "ctor_failed"
             /\ ctorError' = "FileNotFoundError"
        ELSE /\ pc' = IF method = "ENVCONFIG" THEN "load_env" ELSE "ready"
             /\ ctorError' = "none"
    /\ UNCHANGED <<method, github_api, env, netUsed, remotes, head, hasMain,
                   dirty, staged, nextSha, unpushed, remoteHead, externals,
                   calls, call>>

\* _load_env
LoadEnv ==
    /\ pc = "load_env"
    /\ \E t \in EnvValues, u \in EnvValues, r \in EnvValues :
        /\ env' = <<t, u, r>>
        /\ IF EnvComplete(t, u, r)
           THEN pc' = "init_api" /\ ctorError' = "none"
           ELSE pc' = "ctor_failed" /\ ctorError' = "ValueError"
    /\ UNCHANGED <<method, github_api, netUsed, remotes, head, hasMain, dirty,
                   staged, nextSha, unpushed, remoteHead, externals, calls, call>>

\* _init_github_api
InitGithubApi ==
    /\ pc = "init_api"
    /\ github_api' = TRUE
    /\ netUsed' = TRUE
    /\ \E ok \in BOOLEAN :
        IF ok THEN pc' = "ready" /\ ctorError' = "none"
        ELSE pc' = "ctor_failed" /\ ctorError' = "ConnectionError"
    /\ UNCHANGED <<method, env, remotes, head, hasMain, dirty, staged, nextSha,
                   unpushed, remoteHead, externals, calls, call>>

----------------------------------------------------------------------------
(* The environment *)

\* a file of the working tree is edited between two calls
Edit ==
    /\ Idle
    /\ \E f \in FileSet \ dirty : dirty' = dirty \cup {f}
    /\ UNCHANGED <<pc, method, github_api, ctorError, env, netUsed, remotes,
                   head, hasMain, staged, nextSha, unpushed, remoteHead,
                   externals, calls, call>>

\* another party pushes to the hosted branch while a hosted upload is under
\* way, after the call has read the head commit and before it updates the
\* reference.  No step in between reads the branch, so the push is taken at
\* one point of that interval: before create_git_commit.
ExternalPush ==
    /\ pc = "e_commit"
    /\ externals < MaxExternal
    /\ remoteHead' = nextSha
    /\ nextSha' = nextSha + 1
    /\ externals' = externals + 1
    /\ UNCHANGED <<pc, method, github_api, ctorError, env, netUsed, remotes,
                   head, hasMain, dirty, staged, unpushed, calls, call>>

\* the process is terminated in the middle of a hosted upload
Interrupt ==
    /\ pc \in EnvSteps
    /\ pc' = "killed"
    /\ UNCHANGED <<method, github_api, ctorError, env, netUsed, remotes, head,
                   hasMain, dirty, staged, nextSha, unpushed, remoteHead,
                   externals, calls, call>>

----------------------------------------------------------------------------
(* git_upload *)

\* lines 303-314
GitUpload ==
    /\ Idle
    /\ calls < MaxCalls
    /\ calls' = calls + 1
    /\ LET c == [NewCall EXCEPT !.prevCommit = call.commit]
       IN  IF method = "LOCALCONFIG" THEN pc' = "l_remote" /\ call' = c
           ELSE IF method = "ENVCONFIG" THEN pc' = "e_repo" /\ call' = c
           ELSE pc' = "done" /\ call' = Return(c, FALSE)
    /\ UNCHANGED <<method, github_api, ctorError, env, netUsed, remotes, head,
                   hasMain, dirty, staged, nextSha, unpushed, remoteHead,
                   externals>>

\* get_changed_files, lines 82-101: the index and the list it returns, for each
\* outcome of the two git commands
StageAndDiff(outcome) ==
    IF outcome = "add_fails"
    THEN [staged |-> staged, dirty |-> dirty, changed |-> <<>>, added |-> FALSE]
    ELSE IF outcome = "diff_fails"
    THEN [staged |-> staged \cup dirty, dirty |-> {}, changed |-> <<>>,
          added |-> TRUE]
    ELSE [staged |-> staged \cup dirty, dirty |-> {},
          changed |-> ChangedOf(staged \cup dirty), added |-> TRUE]

----------------------------------------------------------------------------
(* git_upload_by_localconfig *)

\* lines 168-170 with _ensure_remote_exists, lines 103-117
L_EnsureRemote ==
    /\ pc = "l_remote"
    /\ IF remotes # 0
       THEN pc' = "l_changes" /\ UNCHANGED <<remotes, call>>
       ELSE \E url \in Urls, created \in BOOLEAN :
              LET c == [call EXCEPT !.answer = url]
              IN  IF IsQuit(url)
                  THEN /\ pc' = "done"
                       /\ call' = Return(c, FALSE)
                       /\ UNCHANGED remotes
                  ELSE IF created
                  THEN /\ pc' = "l_changes"
                       /\ remotes' = 1
                       /\ call' = [c EXCEPT !.remoteAdded = TRUE]
                  ELSE /\ pc' = "done"         \* GitCommandError, line 114
                       /\ call' = Return(c, FALSE)
                       /\ UNCHANGED remotes
    /\ UNCHANGED <<method, github_api, ctorError, env, netUsed, head, hasMain,
                   dirty, staged, nextSha, unpushed, remoteHead, externals,
                   calls>>

\* lines 172-176 with get_changed_files
L_GetChangedFiles ==
    /\ pc = "l_changes"
    /\ \E outcome \in {"ok", "add_fails", "diff_fails"} :
        LET r == StageAndDiff(outcome)
            c == [call EXCEPT !.changed = r.changed, !.gotChanges = TRUE,
                              !.added = r.added]
        IN  /\ staged' = r.staged
            /\ dirty' = r.dirty
            /\ IF NothingToUpload(r.changed)
               THEN pc' = "done" /\ call' = Return(c, FALSE)
               ELSE pc' = "l_commit" /\ call' = c
    /\ UNCHANGED <<method, github_api, ctorError, env, netUsed, remotes, head,
                   hasMain, nextSha, unpushed, remoteHead, externals, calls>>

\* lines 184-187: self.repo.index.commit, which runs the commit hooks
L_Commit ==
    /\ pc = "l_commit"
    /\ \E outcome \in {"ok", "GitCommandError", "HookExecutionError"} :
        IF outcome = "ok"
        THEN /\ pc' = "l_branch"
             /\ call' = [call EXCEPT !.commit = nextSha]
             /\ nextSha' = nextSha + 1
             /\ unpushed' = unpushed \cup {nextSha}
             /\ staged' = StagedAfterCommit(staged)
        ELSE /\ IF LocalCatches(outcome)
                THEN pc' = "done" /\ call' = Return(call, FALSE)
                ELSE pc' = "raised" /\ call' = [call EXCEPT !.raised = outcome]
             /\ UNCHANGED <<nextSha, unpushed, staged>>
    /\ UNCHANGED <<method, github_api, ctorError, env, netUsed, remotes, head,
                   hasMain, dirty, remoteHead, externals, calls>>

\* lines 189-192 with _get_remote_branch, lines 119-151
L_GetRemoteBranch ==
    /\ pc = "l_branch"
    /\ \E failed \in BOOLEAN, choice \in Choices :
        IF failed \/ SelectRemote(choice, remotes) = 0
        THEN /\ pc' = "done"               \* except Exception: None, None
             /\ call' = Return(call, FALSE)
        ELSE /\ pc' = "l_push"
             /\ call' = [call EXCEPT
                           !.prompted = (remotes # 1),
                           !.branch = IF head = "detached" THEN "main" ELSE "work",
                           !.warned = (head = "detached")]
    /\ UNCHANGED <<method, github_api, ctorError, env, netUsed, remotes, head,
                   hasMain, dirty, staged, nextSha, unpushed, remoteHead,
                   externals, calls>>

\* lines 194-203: remote.push(f"{branch}:{branch}") and the check of its result
L_Push ==
    /\ pc = "l_push"
    /\ \E outcome \in {"accepted", "rejected_flag", "rejected_raise", "no_src_ref"} :
        /\ (outcome = "no_src_ref") = ~SrcRefExists(call.branch)
        /\ LET c == [call EXCEPT !.pushes = @ + 1, !.pushOutcome = outcome]
               moved == outcome = "accepted" /\ head = "branch"
           IN  /\ remoteHead' = IF moved THEN call.commit ELSE remoteHead
               /\ unpushed' = IF moved THEN {} ELSE unpushed
               /\ IF outcome \in {"rejected_raise", "no_src_ref"}
                  THEN IF LocalCatches("GitCommandError")
                       THEN pc' = "done" /\ call' = Return(c, FALSE)
                       ELSE pc' = "raised"
                            /\ call' = [c EXCEPT !.raised = "GitCommandError"]
                  ELSE IF PushFailed(PushInfo(outcome))
                  THEN pc' = "done" /\ call' = Return(c, FALSE)
                  ELSE /\ pc' = "l_sync"
                       /\ call' = [c EXCEPT !.published = remoteHead']
    /\ UNCHANGED <<method, github_api, ctorError, env, netUsed, remotes, head,
                   hasMain, dirty, staged, nextSha, externals, calls>>

\* lines 211-216 with _sync_with_remote, lines 153-162
L_Sync ==
    /\ pc = "l_sync"
    /\ \E synced \in BOOLEAN :
        /\ pc' = "done"
        /\ call' = [call EXCEPT !.pulls = @ + 1, !.pullFailed = ~synced,
                                !.result = ResultAfterSync(synced)]
    /\ UNCHANGED <<method, github_api, ctorError, env, netUsed, remotes, head,
                   hasMain, dirty, staged, nextSha, unpushed, remoteHead,
                   externals, calls>>

----------------------------------------------------------------------------
(* git_upload_by_envconfig *)

\* what the handler of line 299 does with an exception raised in the try block
EnvFail(c, exc) ==
    IF EnvCatches(exc)
    THEN pc' = "done" /\ call' = Return(c, FALSE)
    ELSE pc' = "raised" /\ call' = [c EXCEPT !.raised = exc]

\* lines 231-242: the repository, its default branch, the head commit and tree
E_GetRepo ==
    /\ pc = "e_repo"
    /\ netUsed' = TRUE
    /\ \E ok \in BOOLEAN :
        IF ok
        THEN /\ pc' = "e_changes"
             /\ call' = [call EXCEPT !.current_commit = remoteHead,
                                     !.extAtStart = externals]
        ELSE EnvFail(call, "GithubException")
    /\ UNCHANGED <<method, github_api, ctorError, env, remotes, head, hasMain,
                   dirty, staged, nextSha, unpushed, remoteHead, externals,
                   calls>>

\* lines 244-248 with get_changed_files
E_GetChangedFiles ==
    /\ pc = "e_changes"
    /\ \E outcome \in {"ok", "add_fails", "diff_fails"} :
        LET r == StageAndDiff(outcome)
            c == [call EXCEPT !.changed = r.changed, !.gotChanges = TRUE,
                              !.added = r.added]
        IN  /\ staged' = r.staged
            /\ dirty' = r.dirty
            /\ IF NothingToUpload(r.changed)
               THEN pc' = "done" /\ call' = Return(c, FALSE)
               ELSE pc' = "e_blob" /\ call' = c
    /\ UNCHANGED <<method, github_api, ctorError, env, netUsed, remotes, head,
                   hasMain, nextSha, unpushed, remoteHead, externals, calls>>

\* lines 254-273: one iteration of the loop over changed_files.  The file is
\* read; create_git_blob is called with BlobRequest's arguments.  Its content
\* parameter is a str: given bytes, the client library refuses them (an
\* exception, which line 299 catches) or passes them on as they are.
E_Blob ==
    /\ pc = "e_blob"
    /\ call.next <= Len(call.changed)
    /\ LET f == call.changed[call.next]
           after == IF call.next = Len(call.changed) THEN "e_tree" ELSE "e_blob"
       IN  \E read \in {"ok", "FileNotFoundError", "PermissionError"},
              content \in Contents,
              status \in {"created", "refused", "api_error"} :
             LET req == BlobRequest(f, content) IN
             IF read = "FileNotFoundError"
             THEN /\ content = <<>> /\ status = "created"
                  /\ pc' = after
                  /\ call' = [call EXCEPT !.next = @ + 1, !.blob = NoBlob,
                                          !.skipped = @ \cup {f}]
             ELSE IF read = "PermissionError"
             THEN /\ content = <<>> /\ status = "created"
                  /\ EnvFail([call EXCEPT !.blob = NoBlob], read)
             ELSE IF status = "created"
             THEN /\ pc' = after
                  /\ call' = [call EXCEPT !.next = @ + 1, !.blob = req,
                                          !.blobs = @ + 1,
                                          !.elements = Append(@, f)]
             ELSE /\ (status = "refused") => ~req.isStr
                  /\ EnvFail([call EXCEPT !.blob = [req EXCEPT !.status = status]],
                             IF status = "refused" THEN "TypeError"
                             ELSE "GithubException")
    /\ UNCHANGED <<method, github_api, ctorError, env, netUsed, remotes, head,
                   hasMain, dirty, staged, nextSha, unpushed, remoteHead,
                   externals, calls>>

\* line 276: create_git_tree
E_Tree ==
    /\ pc = "e_tree"
    /\ \E ok \in BOOLEAN :
        IF ok
        THEN pc' = "e_commit" /\ call' = [call EXCEPT !.tree = TRUE, !.blob = NoBlob]
        ELSE EnvFail([call EXCEPT !.blob = NoBlob], "GithubException")
    /\ UNCHANGED <<method, github_api, ctorError, env, netUsed, remotes, head,
                   hasMain, dirty, staged, nextSha, unpushed, remoteHead,
                   externals, calls>>

\* line 277: create_git_commit
E_Commit ==
    /\ pc = "e_commit"
    /\ \E ok \in BOOLEAN :
        IF ok
        THEN /\ pc' = "e_ref"
             /\ call' = [call EXCEPT !.new_commit =
                           [sha |-> nextSha,
                            parents |-> CommitParents(call.current_commit)]]
             /\ nextSha' = nextSha + 1
        ELSE EnvFail(call, "GithubException") /\ UNCHANGED nextSha
    /\ UNCHANGED <<method, github_api, ctorError, env, netUsed, remotes, head,
                   hasMain, dirty, staged, unpushed, remoteHead, externals,
                   calls>>

\* line 278: ref.edit(new_commit.sha)
E_RefEdit ==
    /\ pc = "e_ref"
    /\ \E ok \in BOOLEAN :
        IF ok /\ FastForward(call.new_commit)
        THEN /\ pc' = "e_sync"
             /\ remoteHead' = call.new_commit.sha
             /\ call' = [call EXCEPT !.refEdited = TRUE,
                                     !.published = call.new_commit.sha]
        ELSE EnvFail(call, "GithubException") /\ UNCHANGED remoteHead
    /\ UNCHANGED <<method, github_api, ctorError, env, netUsed, remotes, head,
                   hasMain, dirty, staged, nextSha, unpushed, externals, calls>>

\* lines 288-297: the pull into the local clone, when it has a remote
E_Sync ==
    /\ pc = "e_sync"
    /\ \E synced \in BOOLEAN :
        /\ (remotes = 0) => synced
        /\ pc' = "done"
        /\ call' = [call EXCEPT
                      !.pulls = IF remotes = 0 THEN @ ELSE @ + 1,
                      !.pullFailed = ~synced,
                      !.result = ResultAfterSync(synced)]
    /\ UNCHANGED <<method, github_api, ctorError, env, netUsed, remotes, head,
                   hasMain, dirty, staged, nextSha, unpushed, remoteHead,
                   externals, calls>>

----------------------------------------------------------------------------

Next ==
    \/ Construct
    \/ LoadEnv
    \/ InitGithubApi
    \/ Edit
    \/ ExternalPush
    \/ Interrupt
    \/ GitUpload
    \/ L_EnsureRemote
    \/ L_GetChangedFiles
    \/ L_Commit
    \/ L_GetRemoteBranch
    \/ L_Push
    \/ L_Sync
    \/ E_GetRepo
    \/ E_GetChangedFiles
    \/ E_Blob
    \/ E_Tree
    \/ E_Commit
    \/ E_RefEdit
    \/ E_Sync

Spec == Init /\ [][Next]_vars

----------------------------------------------------------------------------
(* Properties *)

InFlight == pc \in LocalSteps \cup EnvSteps

\* C1: in both strategies, when get_changed_files returns an empty change
\* set the call returns False and makes no local commit, no push, no pull,
\* no blob, tree or commit object and no update of the branch reference.
C1_EmptyChangeSetIsNoOp ==
    (call.gotChanges /\ call.changed = <<>>) =>
        /\ pc = "done"
        /\ call.result = "false"
        /\ call.commit = 0
        /\ call.pushes = 0
        /\ call.pulls = 0
        /\ call.blobs = 0
        /\ ~call.tree
        /\ call.new_commit = NoCommit
        /\ ~call.refEdited

\* a call whose only staged change is a dotfile has returned
C1_Witness ==
    /\ pc = "done"
    /\ call.gotChanges
    /\ call.added
    /\ call.changed = <<>>
    /\ staged = {DotEnv}

\* C2: in the hosted strategy the branch reference is updated only after the
\* blob of every changed file that was read, the tree and the commit have
\* been created, and the commit's only parent is the head commit read at the
\* start of the call; as long as the reference has not been updated by the
\* call (a step failed, or the call was interrupted) the branch is where the
\* call found it, and a call that ends without updating it returns False.
C2_RefUpdatedLast ==
    (method = "ENVCONFIG") =>
        /\ call.refEdited =>
              /\ call.tree
              /\ call.new_commit # NoCommit
              /\ call.new_commit.parents = <<call.current_commit>>
              /\ call.next > Len(call.changed)
              /\ call.blobs = Len(call.elements)
              /\ Len(call.elements) + Cardinality(call.skipped) = Len(call.changed)
        /\ (~call.refEdited /\ call.current_commit >= 0
                /\ externals = call.extAtStart) =>
              remoteHead = call.current_commit
        /\ (pc = "done" /\ ~call.refEdited) => call.result = "false"

\* a second hosted upload, of two files, has moved the branch from the commit
\* the first one left
C2_Witness ==
    /\ pc = "done"
    /\ call.refEdited
    /\ call.blobs = 2
    /\ remoteHead = call.new_commit.sha
    /\ call.current_commit # 0

\* C3: no exception leaves git_upload: every call that has ended has returned
\* a boolean.
C3_NoExceptionEscapes ==
    (calls > 0 /\ ~InFlight /\ pc # "killed") =>
        /\ call.raised = "none"
        /\ call.result \in {"true", "false"}

\* C4: in the local strategy, when the remote rejects the push the call
\* returns False, has pushed exactly once and does not pull.
C4_RejectedPushNotRetried ==
    (call.pushOutcome \in {"rejected_flag", "rejected_raise"}) =>
        /\ pc = "done"
        /\ call.result = "false"
        /\ call.pushes = 1
        /\ call.pulls = 0

\* a push was rejected with the error flag set in its push info
C4_Witness ==
    /\ pc = "done"
    /\ call.pushOutcome = "rejected_flag"
    /\ call.commit \in unpushed

\* C5: in both strategies, when the pull of _sync_with_remote fails after the
\* publish step the call still returns True and the remote branch keeps the
\* commit it was given.
C5_SyncFailureKeepsPublish ==
    call.pullFailed =>
        /\ pc = "done"
        /\ call.result = "true"
        /\ call.pulls = 1
        /\ remoteHead = call.published

\* a pull failed after an accepted push of this call's commit
C5_Witness ==
    /\ call.pullFailed
    /\ call.pushOutcome = "accepted"
    /\ call.commit # 0
    /\ remoteHead = call.commit

\* C6: every changed file that was read is uploaded as a blob, declared
\* 'utf-8' when its bytes are valid UTF-8 and 'base64' otherwise, and fetching
\* the blob gives the file's bytes back.
C6_BlobRoundTrip ==
    (call.blob.status \in {"created", "refused"}) =>
        /\ call.blob.status = "created"
        /\ call.blob.encoding =
              IF Utf8Valid(call.blob.content) THEN "utf-8" ELSE "base64"
        /\ Fetch(call.blob) = call.blob.content

\* C7: in the local strategy, with no remote configured, when the operator
\* answers q or Q the call returns False, and no remote is registered,
\* nothing is staged, committed or pushed.
C7_QuitAborts ==
    (call.answer \in {<<"q">>, <<"Q">>}) =>
        /\ pc = "done"
        /\ call.result = "false"
        /\ remotes = 0
        /\ ~call.remoteAdded
        /\ ~call.gotChanges
        /\ ~call.added
        /\ call.commit = 0
        /\ call.pushes = 0

\* the operator answered with a capital Q while files were waiting
C7_Witness ==
    /\ pc = "done"
    /\ call.answer = <<"Q">>
    /\ dirty # {}

\* C8: a local-strategy call in detached-head state that reaches the push uses
\* the branch name main, has logged the warning, and, unless the remote
\* rejects the push, returns True.
C8_DetachedHeadPublishes ==
    (/\ head = "detached"
     /\ call.pushes > 0
     /\ call.pushOutcome \notin {"rejected_flag", "rejected_raise"}
     /\ ~InFlight) =>
        /\ call.branch = "main"
        /\ call.warned
        /\ call.result = "true"

\* _load_env has read the three values (git was found, line 31)
EnvLoaded == pc \notin {"new", "load_env"} /\ ctorError # "FileNotFoundError"

\* C9: in hosted mode, when one of the three values the object holds is
\* absent or empty the constructor has failed with no API client created and
\* no request made, and no upload is ever started; once _load_env has read
\* the values, the failure is the configuration error.
C9_PartialConfigFailsFast ==
    (/\ method = "ENVCONFIG"
     /\ pc \notin {"new", "load_env"}
     /\ \E i \in 1..3 : env[i] \in {"None", ""}) =>
        /\ pc = "ctor_failed"
        /\ EnvLoaded => ctorError = "ValueError"
        /\ ~github_api
        /\ ~netUsed
        /\ calls = 0

\* the token and the repository are set and the account name is empty
C9_Witness ==
    /\ pc = "ctor_failed"
    /\ method = "ENVCONFIG"
    /\ ctorError = "ValueError"
    /\ env = <<"tok", "", "tok">>

\* what holds of every state for C10: the commit precedes the resolution of
\* the remote and the push; a call that made a commit and returned False left
\* it unpushed; only a call with a non-empty change set pushes.
C10_State ==
    /\ (call.branch # "" \/ call.pushes > 0) => call.commit # 0
    /\ (pc = "done" /\ call.result = "false" /\ call.commit # 0) =>
          call.commit \in unpushed
    /\ (call.pushes > 0) => call.changed # <<>>

\* what holds of every step for C10: a call that follows one that made a
\* commit, on a working tree not edited since, ends at the change-set check
\* with False, without a push, and leaves the unpushed commits unpushed.
C10_Step ==
    (pc = "l_changes" /\ call.prevCommit # 0 /\ dirty = {}) =>
        /\ pc' = "done"
        /\ call'.result = "false"
        /\ call'.changed = <<>>
        /\ call'.pushes = 0
        /\ unpushed' = unpushed
        /\ remoteHead' = remoteHead

\* C10: in the local strategy the commit is made before the remote and the
\* branch are resolved and before the push; a call that returns False after
\* it leaves a commit the remote does not have; that commit is pushed only by
\* a later call whose own change set is not empty, and a later call on an
\* unchanged working tree returns False without a push.
C10_UnpushedCommitStays == [](C10_State) /\ [][C10_Step]_vars

\* a call on an unchanged working tree returned False while the commit of the
\* call before it is still unpushed
C10_Witness ==
    /\ pc = "done"
    /\ call.prevCommit # 0
    /\ call.prevCommit \in unpushed
    /\ call.added
    /\ call.changed = <<>>
    /\ call.result = "false"

====
